---- MODULE Spec2Model ----
(***************************************************************************)
(* Model of the eino-minimax-demo tutorial programs.                       *)
(*                                                                         *)
(*   Spec      one invocation of one of the five tools.  The tool         *)
(*             execute_parallel_tasks (ParallelTaskTool.Run) is modelled   *)
(*             step by step: decode, fan-out of one goroutine per task,    *)
(*             sync.WaitGroup join, close of the channel, collection loop, *)
(*             construction of the TaskResult.  The four other tools are   *)
(*             sequential and are modelled as one step each.               *)
(*   FairSpec  Spec with the fairness Go's scheduler gives: a runnable     *)
(*             goroutine eventually runs.  The end of a unit's sleep is    *)
(*             deliberately left without fairness.                         *)
(*   MainSpec  the four main programs (step 1 .. step 4), every call into  *)
(*             the framework answering with success or with an error.      *)
(*                                                                         *)
(* JSON text is modelled by its parse: a payload is a record with a kind   *)
(* k; encoding/json's Unmarshal is modelled by what it does on each kind   *)
(* (null into a slice or map gives nil and no error).  Chinese string      *)
(* literals of the source are written in ASCII.  Wall-clock readings       *)
(* (duration_ms, timestamp) are not part of the model.                     *)
(***************************************************************************)
EXTENDS Integers, Sequences, FiniteSets, TLC

\* ------------------------------------------------------------------ bounds

\* Longest task list passed to execute_parallel_tasks.
MaxTasks == 3

\* Calculator operands range over -1 .. MaxNum.
MaxNum == 2

\* Most chunks a stream delivers before it ends.
MaxChunks == 2

\* ------------------------------------------------------------- JSON values

Names == {"design", "code"}

\* A field of a JSON object: a string, a number, null, or not present.
FStr(x) == [k |-> "string", s |-> x, n |-> 0]
FNum(x) == [k |-> "number", s |-> "", n |-> x]
FNull == [k |-> "null", s |-> "", n |-> 0]
FAbsent == [k |-> "absent", s |-> "", n |-> 0]

\* Decoding a field into a Go string: the zero value "" unless a string is
\* given; a number is a type error.
FieldIsString(f) == f.k \in {"string", "null", "absent"}
FieldString(f) == IF f.k = "string" THEN f.s ELSE ""

\* Decoding a field into a Go float64.
FieldIsNumber(f) == f.k \in {"number", "null", "absent"}
FieldNumber(f) == IF f.k = "number" THEN f.n ELSE 0

\* Elements of a task array: objects, null, or a scalar.
TaskObject(nm, ag) == [k |-> "object", name |-> nm, agent_type |-> ag]
ElemNull == [k |-> "null", name |-> FAbsent, agent_type |-> FAbsent]
ElemNumber == [k |-> "number", name |-> FAbsent, agent_type |-> FAbsent]

\* Two well-formed task objects (one without agent_type), one whose name is a
\* number, a null and a number.
TaskElems ==
    {TaskObject(FStr("design"), FStr("architect")),
     TaskObject(FStr("code"), FAbsent),
     TaskObject(FNum(1), FStr("architect")),
     ElemNull, ElemNumber}

SeqsUpTo(S, n) == UNION {[1..m -> S] : m \in 0..n}

\* Payloads handed to execute_parallel_tasks.  "invalid" is text that is not
\* JSON at all.
JArray(es) == [k |-> "array", e |-> es]
JOther(kind) == [k |-> kind, e |-> <<>>]

ParallelArgs ==
    {JArray(es) : es \in SeqsUpTo(TaskElems, MaxTasks)}
    \cup {JOther(kind) : kind \in {"null", "object", "string", "number", "invalid"}}

\* Arguments of the weather tool.  "Paris" and "2026-02-07" are not in the
\* mock table.
Cities == {"Beijing", "Shanghai", "Shenzhen"}
Dates == {"2026-02-05", "2026-02-06"}

WeatherObject(c, d) == [k |-> "object", city |-> c, date |-> d]
WeatherOther(kind) == [k |-> kind, city |-> FAbsent, date |-> FAbsent]

WeatherArgs ==
    {WeatherObject(c, d) :
        c \in {FStr(x) : x \in Cities \cup {"Paris"}} \cup {FAbsent, FNum(1)},
        d \in {FStr(x) : x \in Dates \cup {"2026-02-07"}} \cup {FAbsent}}
    \cup {WeatherOther(kind) : kind \in {"null", "array", "invalid"}}

\* Arguments of the calculator.
Operators == {"add", "+", "sub", "-", "mul", "*", "div", "/", "pow"}
Operands == {FNum(x) : x \in -1..MaxNum} \cup {FAbsent, FStr("ten")}

CalcObject(a, b, op) == [k |-> "object", a |-> a, b |-> b, operator |-> op]
CalcOther(kind) == [k |-> kind, a |-> FAbsent, b |-> FAbsent, operator |-> FAbsent]

CalcArgs ==
    {CalcObject(a, b, op) :
        a \in Operands, b \in Operands,
        op \in {FStr(x) : x \in Operators} \cup {FAbsent, FNum(1)}}
    \cup {CalcOther(kind) : kind \in {"null", "array", "invalid"}}

\* Arguments of generate_report.
ReportObject(t, w) == [k |-> "object", task_name |-> t, work_summary |-> w]
ReportOther(kind) == [k |-> kind, task_name |-> FAbsent, work_summary |-> FAbsent]

ReportArgs ==
    {ReportObject(t, w) :
        t \in {FStr("login"), FAbsent, FNull, FNum(1)},
        w \in {FStr("done"), FAbsent, FNum(1)}}
    \cup {ReportOther(kind) : kind \in {"null", "array", "invalid"}}

\* get_current_time ignores its arguments.
TimeArgs == {JOther(kind) : kind \in {"object", "null", "invalid"}}

\* Readings of the wall clock, formatted.
Clock == {"2026-02-05 10:00:00", "2026-02-05 10:00:01"}

Tools ==
    {"execute_parallel_tasks", "generate_report", "weather", "get_current_time",
     "calculator"}

ArgsOf(t) ==
    CASE t = "execute_parallel_tasks" -> ParallelArgs
      [] t = "generate_report" -> ReportArgs
      [] t = "weather" -> WeatherArgs
      [] t = "get_current_time" -> TimeArgs
      [] OTHER -> CalcArgs

\* ------------------------------------------------------------ tool results

\* What a tool invocation returns: (string, error).
Returned(payload) == [out |-> payload, err |-> "nil"]
NoRet == [out |-> [kind |-> "none"], err |-> "nil"]

\* return fmt.Sprintf(`{"error": "... %v"}`, err), nil
\* (variant: the decoding error is returned as the error value)
ParseFailure_Raised == [out |-> [kind |-> "none"], err |-> "unmarshal"]
ParseFailure == Returned([kind |-> "error", error |-> "parse"])

\* ---------------------------------------------------- execute_parallel_tasks

\* map[string]string: a function from the keys present to strings; a nil map
\* is the empty one, and a lookup of a missing key gives "".
NilMap == [key \in {} |-> ""]
MapGet(m, key) == IF key \in DOMAIN m THEN m[key] ELSE ""

\* json.Unmarshal([]byte(arguments), &tasks) with tasks []map[string]string.
ElemDecodes(e) ==
    \/ e.k = "null"
    \/ e.k = "object" /\ FieldIsString(e.name) /\ FieldIsString(e.agent_type)

TasksDecode(p) ==
    \/ p.k = "null"
    \/ p.k = "array" /\ \A i \in 1..Len(p.e) : ElemDecodes(p.e[i])

DecodeElem(e) ==
    IF e.k = "null" THEN NilMap
    ELSE [key \in {x \in {"name", "agent_type"} : e[x].k # "absent"} |->
            FieldString(e[key])]

DecodeTasks(p) ==
    IF p.k = "null" THEN <<>> ELSE [i \in 1..Len(p.e) |-> DecodeElem(p.e[i])]

\* AgentReport{AgentName: t["agent_type"], Task: t["name"], Status: "completed",
\*             Result: "... <name> done"}
\* (variants: the status "failed"; the task name read from agent_type)
NewReport_Failed(t) ==
    [agent_name |-> MapGet(t, "agent_type"), task |-> MapGet(t, "name"),
     status |-> "failed", result |-> MapGet(t, "name")]
NewReport_WrongKey(t) ==
    [agent_name |-> MapGet(t, "agent_type"), task |-> MapGet(t, "agent_type"),
     status |-> "completed", result |-> MapGet(t, "name")]
NewReport(t) ==
    [agent_name |-> MapGet(t, "agent_type"), task |-> MapGet(t, "name"),
     status |-> "completed", result |-> MapGet(t, "name")]

\* make(chan AgentReport, n)
\* (variant: the channel is made without a buffer)
MakeChan_Unbuffered(n) == [buf |-> <<>>, cap |-> 0, closed |-> FALSE]
MakeChan(n) == [buf |-> <<>>, cap |-> n, closed |-> FALSE]

\* results <- r : the report joins the buffer at its tail.
\* (variant: at its head)
ChanSend_Lifo(ch, r) == [ch EXCEPT !.buf = <<r>> \o @]
ChanSend(ch, r) == [ch EXCEPT !.buf = Append(@, r)]

\* close(results)
\* (variant: the channel is left open)
CloseChan_Omitted(ch) == ch
CloseChan(ch) == [ch EXCEPT !.closed = TRUE]

\* wg.Add(1), wg.Done()
\* (variant: Done does not count down)
WgAdd(n) == n + 1
WgDone_Omitted(n) == n
WgDone(n) == n - 1

\* wg.Wait() returns when the counter is zero.
\* (variant: it returns at once)
WaitReturns_NoJoin(n) == TRUE
WaitReturns(n) == n = 0

\* summary: "... %d tasks, %d succeeded" of len(tasks), len(reports)
SummaryOf(n, m) == [total |-> n, succeeded |-> m]
Summary(ts, rs) == SummaryOf(Len(ts), Len(rs))

\* TaskResult{Task: ..., Status: "completed", Reports: reports, Summary: summary}
TaskResult(ts, rs) ==
    [kind |-> "batch", task |-> "parallel development", status |-> "completed",
     reports |-> rs, summary |-> Summary(ts, rs)]

\* ------------------------------------------------------------- other tools

\* generate_report: params map[string]string; null gives a nil map.
ReportDecodes(p) ==
    \/ p.k = "null"
    \/ p.k = "object" /\ FieldIsString(p.task_name) /\ FieldIsString(p.work_summary)

ReportRun(p, now) ==
    IF ~ReportDecodes(p) THEN ParseFailure
    ELSE Returned([kind |-> "report", task_name |-> FieldString(p.task_name),
                   work_summary |-> FieldString(p.work_summary), time |-> now])

\* weather: params WeatherParams{City, Date}; null leaves the zero struct.
WeatherDecodes(p) ==
    \/ p.k = "null"
    \/ p.k = "object" /\ FieldIsString(p.city) /\ FieldIsString(p.date)

\* The mock table weatherData.
WeatherData(c, d) ==
    CASE c = "Beijing" /\ d = "2026-02-05" -> "sunny -5C~5C"
      [] c = "Beijing" /\ d = "2026-02-06" -> "cloudy -3C~7C"
      [] c = "Shanghai" /\ d = "2026-02-05" -> "light rain 3C~10C"
      [] c = "Shanghai" /\ d = "2026-02-06" -> "overcast 2C~8C"
      [] c = "Shenzhen" /\ d = "2026-02-05" -> "sunny 15C~24C"
      [] OTHER -> "cloudy 16C~25C"

WeatherRun(p) ==
    IF ~WeatherDecodes(p) THEN ParseFailure
    ELSE LET c == FieldString(p.city)
             d == FieldString(p.date)
         IN  IF c \notin Cities
             THEN Returned([kind |-> "weather", city |-> c, date |-> "",
                            weather |-> "not found"])
             ELSE IF d \notin Dates
             THEN Returned([kind |-> "weather", city |-> c, date |-> d,
                            weather |-> "not found"])
             ELSE Returned([kind |-> "weather", city |-> c, date |-> d,
                            weather |-> WeatherData(c, d)])

\* get_current_time
TimeRun(now) == Returned([kind |-> "time", current_time |-> now])

\* calculator: params CalculatorParams{A, B float64; Operator string}.
CalcDecodes(p) ==
    \/ p.k = "null"
    \/ p.k = "object" /\ FieldIsNumber(p.a) /\ FieldIsNumber(p.b)
                      /\ FieldIsString(p.operator)

Abs(x) == IF x < 0 THEN -x ELSE x

\* fmt.Sprintf("%.2f", num/den): the sign and the hundredths, rounded to the
\* nearest.  No quotient of operands this small lies halfway between two
\* hundredths.  The sign is the float's: a zero product or quotient of operands
\* of opposite sign is -0 and prints "-0.00".
Format2(num, den, negzero) ==
    LET h == (2 * 100 * Abs(num) + Abs(den)) \div (2 * Abs(den))
    IN  [neg |-> (num * den < 0) \/ (num = 0 /\ negzero), hundredths |-> h]

DivByZero == Returned([kind |-> "error", error |-> "division by zero"])

BadOperator(op) == Returned([kind |-> "error", error |-> "unsupported operator", operator |-> op])

CalcRun(p) ==
    IF ~CalcDecodes(p) THEN ParseFailure
    ELSE LET a == FieldNumber(p.a)
             b == FieldNumber(p.b)
             op == FieldString(p.operator)
         IN  CASE op \in {"add", "+"} ->
                    Returned([kind |-> "calc", result |-> Format2(a + b, 1, FALSE)])
               [] op \in {"sub", "-"} ->
                    Returned([kind |-> "calc", result |-> Format2(a - b, 1, FALSE)])
               [] op \in {"mul", "*"} ->
                    Returned([kind |-> "calc", result |-> Format2(a * b, 1, a < 0 \/ b < 0)])
               [] op \in {"div", "/"} ->
                    IF b = 0 THEN DivByZero
                    ELSE Returned([kind |-> "calc", result |-> Format2(a, b, b < 0)])
               [] OTHER -> BadOperator(op)

\* ------------------------------------------------------------------- state

VARIABLES
    tool,       \* the tool invoked
    arguments,  \* its argument string, parsed
    pc,         \* where the invocation stands
    tasks,      \* var tasks []map[string]string
    spawned,    \* iterations of the range loop that have run
    wg,         \* the WaitGroup's counter
    results,    \* the channel results
    unit,       \* where each spawned goroutine stands
    reports,    \* var reports []AgentReport
    ret,        \* what the invocation returned
    panicked,   \* a goroutine panicked
    sent,       \* history: the units in the order of their sends
    prog,       \* MainSpec: the program run, 1 .. 4
    mpc,        \* MainSpec: where main stands
    caseIdx,    \* MainSpec: index of the test case of the loop
    chunks,     \* MainSpec: chunks received from the stream
    printed,    \* MainSpec: what was written to the standard output
    err,        \* MainSpec: the error of the last call, by the call's name
    exitCode    \* MainSpec: the process's exit code, -1 while it runs

toolVars == <<tool, arguments, pc, tasks, spawned, wg, results, unit, reports, ret,
              panicked, sent>>
mainVars == <<prog, mpc, caseIdx, chunks, printed, err, exitCode>>
vars == <<toolVars, mainVars>>

\* No program runs in Spec; no tool is invoked in MainSpec.
MainIdle ==
    /\ prog = 0 /\ mpc = "none" /\ caseIdx = 0 /\ chunks = 0
    /\ printed = <<>> /\ err = "nil" /\ exitCode = -1

ToolIdle ==
    /\ tool = "none" /\ arguments = JOther("null") /\ pc = "none"
    /\ tasks = <<>> /\ spawned = 0 /\ wg = 0 /\ results = MakeChan(0)
    /\ unit = <<>> /\ reports = <<>> /\ ret = NoRet /\ panicked = FALSE
    /\ sent = <<>>

Init ==
    /\ tool \in Tools
    /\ arguments \in ArgsOf(tool)
    /\ pc = "call"
    /\ tasks = <<>> /\ spawned = 0 /\ wg = 0 /\ results = MakeChan(0)
    /\ unit = <<>> /\ reports = <<>> /\ ret = NoRet /\ panicked = FALSE
    /\ sent = <<>>
    /\ MainIdle

\* ---------------------------------------- execute_parallel_tasks, stepwise

Parallel == tool = "execute_parallel_tasks"

\* Lines 58-67: decode the arguments; on failure return the error payload,
\* otherwise make the channel with capacity len(tasks).
Decode ==
    /\ Parallel /\ pc = "call"
    /\ IF ~TasksDecode(arguments)
       THEN /\ ret' = ParseFailure
            /\ pc' = "returned"
            /\ UNCHANGED <<tasks, results>>
       ELSE /\ tasks' = DecodeTasks(arguments)
            /\ results' = MakeChan(Len(DecodeTasks(arguments)))
            /\ pc' = IF Len(DecodeTasks(arguments)) = 0 THEN "wait" ELSE "spawn"
            /\ ret' = ret
    /\ UNCHANGED <<tool, arguments, spawned, wg, unit, reports, panicked, sent, mainVars>>

\* Lines 69-83: one iteration of the loop: wg.Add(1) and go func(task).
Spawn ==
    /\ Parallel /\ pc = "spawn"
    /\ wg' = WgAdd(wg)
    /\ unit' = Append(unit, "sleep")
    /\ spawned' = spawned + 1
    /\ pc' = IF spawned + 1 = Len(tasks) THEN "wait" ELSE "spawn"
    /\ UNCHANGED <<tool, arguments, tasks, results, reports, ret, panicked, sent, mainVars>>

\* Line 73: the goroutine's time.Sleep ends.
UnitWake(u) ==
    /\ Parallel /\ u \in DOMAIN unit /\ unit[u] = "sleep"
    /\ unit' = [unit EXCEPT ![u] = "send"]
    /\ UNCHANGED <<tool, arguments, pc, tasks, spawned, wg, results, reports, ret,
                   panicked, sent, mainVars>>

\* Lines 74-81: results <- AgentReport{...}.  The send waits while the buffer
\* is full; on a closed channel it panics.
UnitSend(u) ==
    /\ Parallel /\ u \in DOMAIN unit /\ unit[u] = "send"
    /\ IF results.closed
       THEN /\ panicked' = TRUE
            /\ unit' = [unit EXCEPT ![u] = "sent"]
            /\ UNCHANGED <<results, sent>>
       ELSE /\ Len(results.buf) < results.cap
            /\ results' = ChanSend(results, NewReport(tasks[u]))
            /\ sent' = Append(sent, u)
            /\ unit' = [unit EXCEPT ![u] = "sent"]
            /\ panicked' = panicked
    /\ UNCHANGED <<tool, arguments, pc, tasks, spawned, wg, reports, ret, mainVars>>

\* Line 72: the deferred wg.Done() as the goroutine returns.
UnitDone(u) ==
    /\ Parallel /\ u \in DOMAIN unit /\ unit[u] = "sent"
    /\ wg' = WgDone(wg)
    /\ unit' = [unit EXCEPT ![u] = "exit"]
    /\ UNCHANGED <<tool, arguments, pc, tasks, spawned, results, reports, ret,
                   panicked, sent, mainVars>>

\* Line 85: wg.Wait()
Wait ==
    /\ Parallel /\ pc = "wait"
    /\ WaitReturns(wg)
    /\ pc' = "close"
    /\ UNCHANGED <<tool, arguments, tasks, spawned, wg, results, unit, reports, ret,
                   panicked, sent, mainVars>>

\* Line 86: close(results); closing a closed channel panics.
Close ==
    /\ Parallel /\ pc = "close"
    /\ results' = CloseChan(results)
    /\ panicked' = (panicked \/ results.closed)
    /\ pc' = "collect"
    /\ UNCHANGED <<tool, arguments, tasks, spawned, wg, unit, reports, ret,
                   sent, mainVars>>

\* Lines 88-91: one turn of for r := range results: take the head of the
\* buffer, or leave the loop when the channel is closed and drained.  On an
\* open, empty channel the receive waits.
Collect ==
    /\ Parallel /\ pc = "collect"
    /\ IF Len(results.buf) > 0
       THEN /\ reports' = Append(reports, Head(results.buf))
            /\ results' = [results EXCEPT !.buf = Tail(@)]
            /\ pc' = pc
       ELSE /\ results.closed
            /\ pc' = "build"
            /\ UNCHANGED <<reports, results>>
    /\ UNCHANGED <<tool, arguments, tasks, spawned, wg, unit, ret, panicked, sent,
                   mainVars>>

\* Lines 93-103: the summary, the TaskResult, and the return.
Build ==
    /\ Parallel /\ pc = "build"
    /\ ret' = Returned(TaskResult(tasks, reports))
    /\ pc' = "returned"
    /\ UNCHANGED <<tool, arguments, tasks, spawned, wg, results, unit, reports,
                   panicked, sent, mainVars>>

\* ------------------------------------------------- the sequential tools

RunReport ==
    /\ tool = "generate_report" /\ pc = "call"
    /\ \E now \in Clock : ret' = ReportRun(arguments, now)
    /\ pc' = "returned"
    /\ UNCHANGED <<tool, arguments, tasks, spawned, wg, results, unit, reports,
                   panicked, sent, mainVars>>

RunWeather ==
    /\ tool = "weather" /\ pc = "call"
    /\ ret' = WeatherRun(arguments)
    /\ pc' = "returned"
    /\ UNCHANGED <<tool, arguments, tasks, spawned, wg, results, unit, reports,
                   panicked, sent, mainVars>>

RunTime ==
    /\ tool = "get_current_time" /\ pc = "call"
    /\ \E now \in Clock : ret' = TimeRun(now)
    /\ pc' = "returned"
    /\ UNCHANGED <<tool, arguments, tasks, spawned, wg, results, unit, reports,
                   panicked, sent, mainVars>>

RunCalculator ==
    /\ tool = "calculator" /\ pc = "call"
    /\ ret' = CalcRun(arguments)
    /\ pc' = "returned"
    /\ UNCHANGED <<tool, arguments, tasks, spawned, wg, results, unit, reports,
                   panicked, sent, mainVars>>

\* The dispatcher's own steps, and one unit's.
DispatcherStep == Decode \/ Spawn \/ Wait \/ Close \/ Collect \/ Build
UnitRun(u) == UnitSend(u) \/ UnitDone(u)

Next ==
    \/ Decode
    \/ Spawn
    \/ \E u \in 1..MaxTasks : UnitWake(u)
    \/ \E u \in 1..MaxTasks : UnitSend(u)
    \/ \E u \in 1..MaxTasks : UnitDone(u)
    \/ Wait
    \/ Close
    \/ Collect
    \/ Build
    \/ RunReport
    \/ RunWeather
    \/ RunTime
    \/ RunCalculator

Spec == Init /\ [][Next]_vars

\* Go's scheduler runs every runnable goroutine: the dispatcher's steps, a
\* unit's send and its deferred Done, and the sequential tools.  How long a
\* unit sleeps is not the scheduler's to say, so UnitWake carries no fairness.
FairSpec ==
    /\ Init /\ [][Next]_vars
    /\ WF_vars(DispatcherStep)
    /\ \A u \in 1..MaxTasks : WF_vars(UnitRun(u))
    /\ WF_vars(RunReport \/ RunWeather \/ RunTime \/ RunCalculator)

\* ---------------------------------------------------------------- claims

Count(seq, x) == Cardinality({i \in 1..Len(seq) : seq[i] = x})

\* The task names of the input, as the goroutines read them: t["name"].
InputNames ==
    [i \in 1..Len(DecodeTasks(arguments)) |-> MapGet(DecodeTasks(arguments)[i], "name")]

\* The invocation of execute_parallel_tasks has returned a TaskResult.
BatchReturned == Parallel /\ pc = "returned" /\ ret.out.kind = "batch"

ReportNames == [i \in 1..Len(ret.out.reports) |-> ret.out.reports[i].task]

\* C1: when the task list decodes, the returned TaskResult holds exactly one
\* report per submitted task: as many reports as tasks, and every task name as
\* often among the reports as among the tasks.
C1_OneReportPerTask ==
    (Parallel /\ pc = "returned" /\ TasksDecode(arguments)) =>
        /\ ret.out.kind = "batch"
        /\ Len(ret.out.reports) = Len(InputNames)
        /\ \A nm \in Names \cup {""} :
               Count(ReportNames, nm) = Count(InputNames, nm)

\* A batch of three tasks, two of them of the same name, has returned.
C1_Witness ==
    /\ BatchReturned
    /\ Len(ret.out.reports) = 3
    /\ Count(InputNames, "design") = 2
    /\ Count(InputNames, "") = 1

\* C2: from the moment the dispatcher is past wg.Wait(), and so whenever the
\* TaskResult exists, every task has its goroutine, every goroutine has sent
\* its report and has returned.
C2_FullJoin ==
    (Parallel /\ pc \in {"close", "collect", "build", "returned"}
        /\ (pc = "returned" => ret.out.kind = "batch")) =>
        /\ Len(unit) = Len(tasks)
        /\ \A u \in DOMAIN unit : unit[u] = "exit"
        /\ Len(sent) = Len(tasks)

\* A batch of at least two tasks has returned.
C2_Witness == BatchReturned /\ Len(tasks) >= 2

\* C3: the summary of a returned TaskResult counts total = len(tasks) and
\* succeeded = len(reports), the two are equal, the batch and every report
\* ever produced have status "completed".
C3_SummaryCounts ==
    /\ \A i \in 1..Len(results.buf) : results.buf[i].status = "completed"
    /\ \A i \in 1..Len(reports) : reports[i].status = "completed"
    /\ BatchReturned =>
        /\ ret.out.summary.total = Len(InputNames)
        /\ ret.out.summary.succeeded = Len(ret.out.reports)
        /\ ret.out.summary.succeeded = ret.out.summary.total
        /\ ret.out.status = "completed"
        /\ \A i \in 1..Len(ret.out.reports) : ret.out.reports[i].status = "completed"

\* Two tasks were given and the summary says 2 total, 2 succeeded.
C3_Witness ==
    /\ BatchReturned
    /\ Len(InputNames) = 2
    /\ ret.out.summary = SummaryOf(2, 2)

\* A list of task objects.
IsTaskList(p) == p.k = "array" /\ \A i \in 1..Len(p.e) : p.e[i].k = "object"

\* C4: a payload that is not a list of task objects yields the error payload
\* and nothing else: no goroutine is spawned, the dispatcher never gets past
\* the decoding, no TaskResult is returned, nothing panics and no error value
\* is returned.
C4_MalformedYieldsError ==
    (Parallel /\ ~IsTaskList(arguments)) =>
        /\ pc \in {"call", "returned"}
        /\ unit = <<>>
        /\ ~panicked
        /\ ret.err = "nil"
        /\ pc = "returned" => ret.out.kind = "error"

\* The task list is empty: [] or, as Unmarshal has it, null.
EmptyBatch == Parallel /\ TasksDecode(arguments) /\ Len(DecodeTasks(arguments)) = 0

\* C5: with an empty task list no goroutine is spawned, the channel has
\* capacity 0, the dispatcher can take a step in every state before its return
\* (neither wg.Wait() nor the range loop blocks), and the TaskResult has no
\* reports and the summary 0 total, 0 succeeded.
C5_EmptyBatch ==
    EmptyBatch =>
        /\ unit = <<>> /\ spawned = 0 /\ wg = 0
        /\ results.cap = 0 /\ results.buf = <<>>
        /\ pc # "returned" => ENABLED DispatcherStep
        /\ pc = "returned" =>
            /\ ret.out.kind = "batch"
            /\ ret.out.reports = <<>>
            /\ ret.out.summary = SummaryOf(0, 0)

\* The payload [] has been answered.
C5_Witness == arguments = JArray(<<>>) /\ BatchReturned

\* Whether the tool's Unmarshal accepts the arguments.
ArgsDecode ==
    CASE tool = "execute_parallel_tasks" -> TasksDecode(arguments)
      [] tool = "generate_report" -> ReportDecodes(arguments)
      [] tool = "weather" -> WeatherDecodes(arguments)
      [] tool = "calculator" -> CalcDecodes(arguments)
      [] OTHER -> TRUE

\* C6: no tool raises: nothing panics, the error value is nil in every state,
\* a returned invocation has a result string, and arguments that do not decode,
\* an unsupported operator, a division by zero and an unknown city or date are
\* answered with a payload.
C6_ToolsNeverRaise ==
    /\ ~panicked
    /\ ret.err = "nil"
    /\ pc = "returned" =>
        /\ ret.out.kind # "none"
        /\ ~ArgsDecode => ret.out.kind = "error"
        /\ (tool = "calculator" /\ ArgsDecode) =>
            /\ (FieldString(arguments.operator) \in {"div", "/"}
                    /\ FieldNumber(arguments.b) = 0) => ret.out.kind = "error"
            /\ FieldString(arguments.operator) \notin Operators \ {"pow"} =>
                    ret.out.kind = "error"
        /\ (tool = "weather" /\ ArgsDecode
                /\ (FieldString(arguments.city) \notin Cities
                        \/ FieldString(arguments.date) \notin Dates)) =>
            (ret.out.kind = "weather" /\ ret.out.weather = "not found")

\* The calculator has answered a division by zero.
C6_Witness ==
    /\ tool = "calculator" /\ pc = "returned" /\ ArgsDecode
    /\ FieldString(arguments.operator) = "div"
    /\ FieldNumber(arguments.b) = 0
    /\ ret = DivByZero

\* C9: the reports of a returned TaskResult stand in the order in which the
\* goroutines sent them, whatever the order of submission, and the senders
\* are the tasks, each once.
C9_CompletionOrder ==
    BatchReturned =>
        /\ Len(ret.out.reports) = Len(sent)
        /\ \A i \in 1..Len(sent) : ret.out.reports[i] = NewReport(tasks[sent[i]])
        /\ {sent[i] : i \in 1..Len(sent)} = 1..Len(tasks)
        /\ Len(sent) = Len(tasks)

\* The units sent in the order p, and the result is back.
OrderReached(p) == BatchReturned /\ Len(tasks) = Len(p) /\ sent = p

\* Three tasks of different names were reported in the order third, first,
\* second.
C9_Witness ==
    /\ OrderReached(<<3, 1, 2>>)
    /\ InputNames = <<"design", "code", "">>
    /\ ReportNames = <<"", "design", "code">>

Sleeping(u) == u \in DOMAIN unit /\ unit[u] = "sleep"

\* C10: if every unit's sleep ends, the invocation returns; if some unit
\* sleeps for ever, it never returns.
C10_TerminatesWithUnits ==
    /\ (\A u \in 1..MaxTasks : []<>(~Sleeping(u))) => <>(pc = "returned")
    /\ \A u \in 1..MaxTasks : (<>[]Sleeping(u)) => [](pc # "returned")

\* The dispatcher stands in wg.Wait() held up by one unit, the others being
\* done.
C10_Witness ==
    /\ Parallel /\ pc = "wait" /\ Len(tasks) >= 2
    /\ Cardinality({u \in DOMAIN unit : unit[u] = "sleep"}) = 1
    /\ Cardinality({u \in DOMAIN unit : unit[u] = "exit"}) = Len(tasks) - 1

\* -------------------------------------------------------- the main programs

\* prog 1: step 1, ChatModel only       (step4_multi_agent_parallel.go:279-327)
\* prog 2: step 2, calculator chain     (step3_react_agent.go:286-382)
\* prog 3: step 3, ReAct agent          (step3_react_agent.go:104-205)
\* prog 4: step 4, parallel dispatch    (step4_multi_agent_parallel.go:152-265)
Programs == 1..4

\* len(testCases) of the programs that loop over test cases.
NumCases(p) == IF p = 3 THEN 3 ELSE IF p = 4 THEN 2 ELSE 0

\* What the programs print.
MsgNoKey == "Error: MINIMAX_API_KEY not set"
MsgNewModel == "Failed to create chat model"
MsgBind == "Failed to bind tools"
MsgToolNode == "Failed to create tools node"
MsgNewAgent == "Failed to create agent"
MsgFormat == "Failed to format template"
MsgCompile == "Failed to compile chain"
MsgGenerate == "Failed to generate"
MsgInvoke == "Failed to invoke agent"
MsgError == "Error"
MsgStream == "Stream error"
MsgHeader == "test case"
MsgResponse == "response"
MsgStreaming == "streaming response"
MsgChunk == "chunk"

\* Which error handlers end the process with os.Exit(1); the others say
\* continue.
\* (variants: the handler exits in every program)
FormatErrExits_Always(p) == TRUE
FormatErrExits(p) == p \in {1, 2}
CompileErrExits(p) == p = 2
InvokeErrExits_Always(p) == TRUE
InvokeErrExits(p) == p = 2

\* The call op failed: fmt.Println(msg); os.Exit(1)
Exit1(msg, op) ==
    /\ printed' = Append(printed, msg)
    /\ err' = op
    /\ exitCode' = 1
    /\ mpc' = "exited"
    /\ UNCHANGED <<caseIdx, chunks>>

\* The end of one turn of the loop over testCases, by continue or by reaching
\* the end of the body: the next test case, or the statement after the loop.
NextCase(msgs, e) ==
    /\ printed' = printed \o msgs
    /\ err' = e
    /\ caseIdx' = caseIdx + 1
    /\ mpc' = IF caseIdx < NumCases(prog)
              THEN (IF prog = 3 THEN "agentgenerate" ELSE "format")
              ELSE (IF prog = 3 THEN "stream" ELSE "return")
    /\ UNCHANGED <<exitCode, chunks>>

\* A step that succeeds and prints msgs.
Goto(label, msgs) ==
    /\ printed' = printed \o msgs
    /\ err' = "nil"
    /\ mpc' = label
    /\ UNCHANGED <<caseIdx, chunks, exitCode>>

\* The header a turn of the loop prints first.
Header == IF prog \in {3, 4} THEN <<MsgHeader>> ELSE <<>>

MainInit ==
    /\ prog \in Programs
    /\ mpc = "getenv"
    /\ caseIdx = 0 /\ chunks = 0 /\ printed = <<>> /\ err = "nil" /\ exitCode = -1
    /\ ToolIdle

\* apiKey := os.Getenv("MINIMAX_API_KEY"); if apiKey == "" { ...; os.Exit(1) }
GetEnv ==
    /\ mpc = "getenv"
    /\ \E apiKey \in {"", "sk-cp"} :
        IF apiKey = "" THEN Exit1(MsgNoKey, "nil") ELSE Goto("newmodel", <<>>)
    /\ UNCHANGED <<prog, toolVars>>

\* chatModel, err := openai.NewChatModel(...)
NewChatModel ==
    /\ mpc = "newmodel"
    /\ \E failed \in BOOLEAN :
        IF failed THEN Exit1(MsgNewModel, "openai.NewChatModel")
        ELSE CASE prog = 1 -> Goto("format", <<>>)
               [] prog = 3 -> Goto("newagent", <<>>)
               [] OTHER -> Goto("bind", <<>>)
    /\ UNCHANGED <<prog, toolVars>>

\* err = chatModel.BindTools(...)   (the tools' Info never fails)
BindTools ==
    /\ mpc = "bind" /\ prog \in {2, 4}
    /\ \E failed \in BOOLEAN :
        IF failed THEN Exit1(MsgBind, "chatModel.BindTools") ELSE Goto("toolnode", <<>>)
    /\ UNCHANGED <<prog, toolVars>>

\* toolsNode, err := compose.NewToolNode(...); in step 4 the loop over the
\* test cases starts next.
NewToolNode ==
    /\ mpc = "toolnode" /\ prog \in {2, 4}
    /\ \E failed \in BOOLEAN :
        IF failed THEN Exit1(MsgToolNode, "compose.NewToolNode")
        ELSE IF prog = 4 THEN NextCase(<<>>, "nil") ELSE Goto("format", <<>>)
    /\ UNCHANGED <<prog, toolVars>>

\* agent, err := react.NewAgent(...); the loop over the test cases starts next.
NewAgent ==
    /\ mpc = "newagent" /\ prog = 3
    /\ \E failed \in BOOLEAN :
        IF failed THEN Exit1(MsgNewAgent, "react.NewAgent") ELSE NextCase(<<>>, "nil")
    /\ UNCHANGED <<prog, toolVars>>

\* messages, err := template.Format(...): fatal in steps 1 and 2, continue in
\* step 4, where it is the first statement of the loop body after the header.
TemplateFormat ==
    /\ mpc = "format" /\ prog \in {1, 2, 4}
    /\ \E failed \in BOOLEAN :
        IF failed
        THEN IF FormatErrExits(prog) THEN Exit1(MsgFormat, "template.Format")
             ELSE NextCase(Header \o <<MsgFormat>>, "template.Format")
        ELSE IF prog = 4 THEN Goto("compile", Header) ELSE Goto("generate", <<>>)
    /\ UNCHANGED <<prog, toolVars>>

\* result, err := chatModel.Generate(ctx, messages)
ChatGenerate ==
    /\ mpc = "generate" /\ prog \in {1, 2}
    /\ \E failed \in BOOLEAN :
        IF failed THEN Exit1(MsgGenerate, "chatModel.Generate")
        ELSE Goto(IF prog = 1 THEN "return" ELSE "compile", <<MsgResponse>>)
    /\ UNCHANGED <<prog, toolVars>>

\* agent, err := chain.Compile(ctx)
ChainCompile ==
    /\ mpc = "compile" /\ prog \in {2, 4}
    /\ \E failed \in BOOLEAN :
        IF failed
        THEN IF CompileErrExits(prog) THEN Exit1(MsgCompile, "chain.Compile")
             ELSE NextCase(<<MsgCompile>>, "chain.Compile")
        ELSE Goto("invoke", <<>>)
    /\ UNCHANGED <<prog, toolVars>>

\* resp, err := agent.Invoke(ctx, messages)
AgentInvoke ==
    /\ mpc = "invoke" /\ prog \in {2, 4}
    /\ \E failed \in BOOLEAN :
        IF failed
        THEN IF InvokeErrExits(prog) THEN Exit1(MsgInvoke, "agent.Invoke")
             ELSE NextCase(<<MsgError>>, "agent.Invoke")
        ELSE IF prog = 4 THEN NextCase(<<MsgResponse>>, "nil")
             ELSE Goto("return", <<MsgResponse>>)
    /\ UNCHANGED <<prog, toolVars>>

\* Step 3's loop body: the header, resp, err := agent.Generate(...), and on an
\* error continue.
AgentGenerate ==
    /\ mpc = "agentgenerate" /\ prog = 3
    /\ \E failed \in BOOLEAN :
        IF failed THEN NextCase(Header \o <<MsgError>>, "agent.Generate")
        ELSE NextCase(Header \o <<MsgResponse>>, "nil")
    /\ UNCHANGED <<prog, toolVars>>

\* stream, err := agent.Stream(...)
AgentStream ==
    /\ mpc = "stream" /\ prog = 3
    /\ \E failed \in BOOLEAN :
        IF failed THEN Exit1(MsgStream, "agent.Stream") ELSE Goto("recv", <<MsgStreaming>>)
    /\ UNCHANGED <<prog, toolVars>>

\* One turn of for { msg, err := stream.Recv() ... }: an error (the end of the
\* stream is one) breaks the loop; a chunk is printed unless it is empty.
StreamRecv ==
    /\ mpc = "recv" /\ prog = 3
    /\ \E got \in {"err", "chunk", "empty"} :
        IF got = "err"
        THEN /\ err' = "stream.Recv"
             /\ mpc' = "return"
             /\ UNCHANGED <<printed, caseIdx, chunks, exitCode>>
        ELSE /\ chunks < MaxChunks
             /\ chunks' = chunks + 1
             /\ printed' = IF got = "chunk" THEN Append(printed, MsgChunk) ELSE printed
             /\ UNCHANGED <<mpc, caseIdx, err, exitCode>>
    /\ UNCHANGED <<prog, toolVars>>

\* main returns: the process exits with code 0.
MainReturn ==
    /\ mpc = "return"
    /\ exitCode' = 0
    /\ mpc' = "exited"
    /\ UNCHANGED <<prog, caseIdx, chunks, printed, err, toolVars>>

MainNext ==
    \/ GetEnv
    \/ NewChatModel
    \/ BindTools
    \/ NewToolNode
    \/ NewAgent
    \/ TemplateFormat
    \/ ChatGenerate
    \/ ChainCompile
    \/ AgentInvoke
    \/ AgentGenerate
    \/ AgentStream
    \/ StreamRecv
    \/ MainReturn

MainSpec == MainInit /\ [][MainNext]_vars

\* ------------------------------------------------- claims on the programs

SetupFailureMsgs == {MsgNoKey, MsgNewModel, MsgFormat}

\* C7 as stated: a missing credential, a client construction failure or a
\* template rendering failure is the last thing any of the programs does: the
\* process has exited with code 1, so nothing is invoked afterwards and the
\* run never ends with code 0.
C7_SetupFailureExits ==
    \A i \in DOMAIN printed :
        printed[i] \in SetupFailureMsgs =>
            (i = Len(printed) /\ mpc = "exited" /\ exitCode = 1)

\* A setup failure that ends the process: every one but step 4's template
\* rendering failure.
FatalSetupFailure(msg) ==
    \/ msg \in {MsgNoKey, MsgNewModel}
    \/ msg = MsgFormat /\ prog \in {1, 2}

\* C7 amended: a missing credential and a client construction failure in every
\* program, and a template rendering failure in steps 1 and 2, are the last
\* thing the program does, with exit code 1.  In step 4 a template rendering
\* failure never leads to exit code 1: what follows it, if anything, is the
\* next test case or the end of main.  Exit code 0 is that of a main that ran
\* to its end: no fatal failure, every test case started, and in steps 1 and 2
\* the last response printed.
C7_SetupFailures ==
    /\ \A i \in DOMAIN printed :
        /\ FatalSetupFailure(printed[i]) =>
            (i = Len(printed) /\ mpc = "exited" /\ exitCode = 1)
        /\ (printed[i] = MsgFormat /\ prog = 4) =>
            /\ exitCode # 1
            /\ i < Len(printed) => printed[i + 1] = MsgHeader
            /\ i = Len(printed) => mpc \in {"format", "return", "exited"}
    /\ exitCode = 0 =>
        /\ mpc = "exited"
        /\ \A i \in DOMAIN printed : ~FatalSetupFailure(printed[i])
        /\ prog \in {3, 4} => Count(printed, MsgHeader) = NumCases(prog)
        /\ prog \in {1, 2} => printed[Len(printed)] = MsgResponse

\* Step 4 has ended with code 0 after a template rendering failure in its
\* first test case and an agent invocation in its second.
C7_Witness ==
    /\ prog = 4 /\ exitCode = 0
    /\ printed = <<MsgHeader, MsgFormat, MsgHeader, MsgResponse>>

DownstreamCalls ==
    {"chatModel.Generate", "agent.Invoke", "agent.Generate", "agent.Stream",
     "stream.Recv"}

\* C8 as stated: an error of a model or agent invocation never ends the
\* process: the program is still running, or ran to the end of main.
C8_DownstreamErrorSkips ==
    err \in DownstreamCalls => exitCode # 1

\* The invocations inside the loops over the test cases.
InLoop(call) ==
    \/ call = "agent.Generate" /\ prog = 3
    \/ call = "agent.Invoke" /\ prog = 4

\* C8 amended: an error of the invocation inside the loop of step 3 or step 4
\* skips the test case: the process has not exited with code 1 and stands at
\* the next test case, or after the loop.  An error of a single-shot
\* invocation (chatModel.Generate in steps 1 and 2, agent.Invoke in step 2) or
\* of agent.Stream in step 3 ends the process with code 1.  An error of
\* stream.Recv ends the receive loop only.
C8_LoopErrorsSkip ==
    /\ InLoop(err) =>
        /\ exitCode # 1
        /\ mpc \in {"agentgenerate", "format", "stream", "return", "exited"}
        /\ caseIdx >= 2
        /\ printed[Len(printed)] = MsgError
    /\ (err \in {"chatModel.Generate", "agent.Invoke", "agent.Stream"} /\ ~InLoop(err)) =>
        (mpc = "exited" /\ exitCode = 1)
    /\ err = "stream.Recv" => (mpc \in {"return", "exited"} /\ exitCode # 1)

\* Step 4's first invocation failed and the program stands at its second
\* test case.
C8_Witness ==
    /\ prog = 4 /\ err = "agent.Invoke" /\ mpc = "format" /\ caseIdx = 2
    /\ exitCode = -1

\* ----------------------------------------------- claims on the channel

\* C11: the reports buffered in the channel never exceed its capacity, which
\* is the number of tasks; a unit that has come to its send can send at once
\* (the buffer has room and the channel is open); the channel is closed only
\* by the dispatcher's one close(results), after every task's report was
\* sent, and stays closed; nothing panics (no send on a closed channel, no
\* second close).
C11_SendNeverBlocks ==
    Parallel =>
        /\ Len(results.buf) <= results.cap
        /\ pc \notin {"call", "returned"} => results.cap = Len(tasks)
        /\ Len(results.buf) + Len(reports) = Len(sent)
        /\ \A u \in DOMAIN unit :
            unit[u] = "send" =>
                /\ Len(results.buf) < results.cap
                /\ ~results.closed
                /\ ENABLED UnitSend(u)
        /\ results.closed <=>
            (pc \in {"collect", "build"} \/ (pc = "returned" /\ ret.out.kind = "batch"))
        /\ results.closed => Len(sent) = Len(tasks)
        /\ ~panicked

\* The buffer is full of the reports of three units while the dispatcher,
\* the only consumer, still stands in wg.Wait() with one unit's Done to come.
C11_Witness ==
    /\ Parallel /\ pc = "wait" /\ wg = 1
    /\ results.cap = 3 /\ Len(results.buf) = 3
    /\ ~results.closed

====
